---- MODULE Spec2Model ----
(***************************************************************************)
(* A model of weex_cli.py: the precision table and the normalisation of    *)
(* price and size, the request signer, send_request and the operations    *)
(* built on it.  Spec runs one command per process; SpecPrecision applies  *)
(* the precision functions to drawn inputs; SpecPositions walks the loop   *)
(* of get_all_positions; SpecSigner calls generate_signature twice with    *)
(* other calls in between; SpecVerbose calls send_request in verbose mode. *)
(*                                                                         *)
(* Numbers.  A Python int is [t |-> "int", v] with v its value.  A Python  *)
(* float is the IEEE-754 double it is: [t |-> "float", neg, m, e] stands   *)
(* for (-1)^neg * m * 2^e, m a whole number of exactly 53 bits (no bits    *)
(* for zero) held as limbs in base 2^15.  Division, the product with an    *)
(* int, round(), str() and the fixed formatting of an f-string are         *)
(* computed as the platform computes them: every result is the double      *)
(* nearest to the exact value, the one with the even mantissa on a tie,    *)
(* and str() yields the shortest digits that read back as the same         *)
(* double, so 3 * 0.1 is 0.30000000000000004 here as it is in Python.      *)
(* nan, the infinities, negative zero, subnormal numbers and magnitudes    *)
(* that overflow a double are outside the model.                           *)
(*                                                                         *)
(* Strings are TLA+ strings, built with \o and cut with SubSeq.            *)
(***************************************************************************)
EXTENDS Integers, Sequences, FiniteSets, TLC

VARIABLES
    pc,                 \* "boot" (module not yet loaded), "ready", "get_all_positions", "done", "exited"
    exit_code,          \* the status of sys.exit, None while running
    api_key,            \* os.environ.get("WEEX_API_KEY")
    secret_key,         \* os.environ.get("WEEX_SECRET_KEY")
    access_passphrase,  \* os.environ.get("WEEX_PASSPHRASE")
    now,                \* the last value read from time.time(), in ms
    op,                 \* the last operation invoked: its name, arguments, outcome
    wire,               \* the HTTP requests that operation transmitted, in order
    calc                \* the last call of a precision function (SpecPrecision)

vars == <<pc, exit_code, api_key, secret_key, access_passphrase, now, op, wire, calc>>

None == "None"

(***************************************************************************)
(* Bounds of the model.                                                    *)
(***************************************************************************)
\* values are drawn at k half steps from zero, k up to MaxHalfSteps
MaxHalfSteps == 6
\* time.time() never reads more than MaxClock ms
MaxClock == 1
\* the largest size and price of an order are MaxOrderSteps steps
MaxOrderSteps == 3

(***************************************************************************)
(* Text.                                                                   *)
(***************************************************************************)
Unit == 10^6

Abs(n) == IF n < 0 THEN -n ELSE n

\* one decimal digit as text
Digit(d) == SubSeq("0123456789", d + 1, d + 1)

RECURSIVE NatStr(_)
\* str() of a non-negative int
NatStr(n) == IF n < 10 THEN Digit(n) ELSE NatStr(n \div 10) \o Digit(n % 10)

RECURSIVE PadLeft(_, _)
\* s with zeros in front up to width w
PadLeft(s, w) == IF Len(s) >= w THEN s ELSE PadLeft("0" \o s, w)

RECURSIVE RStrip0(_)
\* s.rstrip('0')
RStrip0(s) ==
    IF Len(s) > 0 /\ SubSeq(s, Len(s), Len(s)) = "0"
    THEN RStrip0(SubSeq(s, 1, Len(s) - 1))
    ELSE s

RECURSIVE AfterLastDot(_, _)
\* s.split('.')[-1]: the text after the last '.', all of s when it has none
AfterLastDot(s, i) ==
    IF i = 0 THEN s
    ELSE IF SubSeq(s, i, i) = "." THEN SubSeq(s, i + 1, Len(s))
    ELSE AfterLastDot(s, i - 1)

RECURSIVE IndexIn(_, _, _)
\* the position of the one-character text c in s at or after i, 0 when absent
IndexIn(c, s, i) ==
    IF i > Len(s) THEN 0
    ELSE IF SubSeq(s, i, i) = c THEN i
    ELSE IndexIn(c, s, i + 1)

UpperChar(c) ==
    LET i == IndexIn(c, "abcdefghijklmnopqrstuvwxyz", 1)
    IN  IF i = 0 THEN c ELSE SubSeq("ABCDEFGHIJKLMNOPQRSTUVWXYZ", i, i)

RECURSIVE Upper(_)
\* s.upper()
Upper(s) == IF s = "" THEN "" ELSE UpperChar(SubSeq(s, 1, 1)) \o Upper(SubSeq(s, 2, Len(s)))

\* s.startswith(prefix)
StartsWith(s, prefix) == Len(s) >= Len(prefix) /\ SubSeq(s, 1, Len(prefix)) = prefix

\* a value read from a table of values computed beforehand when the table holds
\* the key, and computed otherwise: Tabled(table, key, value) is value
Tabled(table, key, value) == IF key \in DOMAIN table THEN table[key] ELSE value

Range(f) == {f[x] : x \in DOMAIN f}

(***************************************************************************)
(* Whole numbers of any size: the limbs in base 2^15, lowest first; <<>>   *)
(* is zero and the highest limb of any other number is not zero.           *)
(***************************************************************************)
Base == 2^15

Limb(a, i) == IF 1 <= i /\ i <= Len(a) THEN a[i] ELSE 0

Highest(S) == CHOOSE i \in S : \A j \in S : j <= i

BigNorm(a) ==
    LET used == {i \in 1..Len(a) : a[i] # 0}
    IN  IF used = {} THEN <<>> ELSE SubSeq(a, 1, Highest(used))

BigFromInt(n) == BigNorm(<<n % Base, (n \div Base) % Base, n \div (Base * Base)>>)

BigToInt(a) == Limb(a, 1) + Base * Limb(a, 2) + Base * Base * Limb(a, 3)

Longest(a, b) == IF Len(a) < Len(b) THEN Len(b) ELSE Len(a)

\* the carry into limb i of a + b
Carry(a, b, i) ==
    LET open == {j \in 1..(i - 1) : Limb(a, j) + Limb(b, j) # Base - 1}
    IN  IF open # {} /\ Limb(a, Highest(open)) + Limb(b, Highest(open)) >= Base THEN 1 ELSE 0

BigAdd(a, b) ==
    BigNorm([i \in 1..(Longest(a, b) + 1) |-> (Limb(a, i) + Limb(b, i) + Carry(a, b, i)) % Base])

\* the borrow from limb i of a - b
Borrow(a, b, i) ==
    LET open == {j \in 1..(i - 1) : Limb(a, j) # Limb(b, j)}
    IN  IF open # {} /\ Limb(a, Highest(open)) < Limb(b, Highest(open)) THEN 1 ELSE 0

\* a - b, for a >= b
BigSub(a, b) ==
    BigNorm([i \in 1..Len(a) |-> (Limb(a, i) - Limb(b, i) - Borrow(a, b, i)) % Base])

BigCmp(a, b) ==
    LET differ == {i \in 1..Longest(a, b) : Limb(a, i) # Limb(b, i)}
    IN  IF differ = {} THEN 0
        ELSE IF Limb(a, Highest(differ)) < Limb(b, Highest(differ)) THEN -1 ELSE 1

\* a * k, for 0 <= k <= Base
BigMulSmall(a, k) ==
    BigAdd([i \in 1..Len(a) |-> (a[i] * k) % Base],
           <<0>> \o [i \in 1..Len(a) |-> (a[i] * k) \div Base])

\* a * b, for b of at most three limbs
BigMul(a, b) ==
    BigAdd(BigAdd(BigMulSmall(a, Limb(b, 1)), <<0>> \o BigMulSmall(a, Limb(b, 2))),
           <<0, 0>> \o BigMulSmall(a, Limb(b, 3)))

\* a * 2^n
BigShl(a, n) ==
    BigNorm([i \in 1..(Len(a) + (n \div 15) + 1) |->
                ((Limb(a, i - (n \div 15)) * 2^(n % 15)) % Base)
                + ((Limb(a, i - (n \div 15) - 1) * 2^(n % 15)) \div Base)])

\* a \div 2^n
BigShr(a, n) ==
    BigNorm([i \in 1..Len(a) |->
                (Limb(a, i + (n \div 15)) \div 2^(n % 15))
                + (Limb(a, i + (n \div 15) + 1) % 2^(n % 15)) * 2^(15 - (n % 15))])

BitLen(n) == CHOOSE b \in 0..15 : n < 2^b /\ (b = 0 \/ n >= 2^(b - 1))
BigBitLen(a) == IF Len(a) = 0 THEN 0 ELSE 15 * (Len(a) - 1) + BitLen(a[Len(a)])
BigOdd(a) == Limb(a, 1) % 2 = 1

RECURSIVE BigMulPow10(_, _)
\* a * 10^k
BigMulPow10(a, k) ==
    IF k = 0 THEN a
    ELSE BigMulSmall(BigMulPow10(a, IF k >= 4 THEN k - 4 ELSE k - 1), IF k >= 4 THEN 10000 ELSE 10)

BigPow10(k) == BigMulPow10(<<1>>, k)

\* one limb of a quotient: the c with v * c <= cur < v * (c + 1), for cur < v * Base
\* and the top limb of v at least Base / 2 (the estimate from the top limbs is then
\* at most two too large)
QuotLimb(cur, v) ==
    LET top == (Limb(cur, Len(v) + 1) * Base + Limb(cur, Len(v))) \div v[Len(v)]
        est == IF top > Base - 1 THEN Base - 1 ELSE top
    IN  Highest({c \in {est - 2, est - 1, est} : c >= 0 /\ BigCmp(BigMulSmall(v, c), cur) <= 0})

RECURSIVE BigDivLimbs(_, _, _, _)
\* the limb c in front of the limbs of a quotient
BigDivCons(c, rest) == <<<<c>> \o rest[1], rest[2]>>

\* the limbs i..1 of the quotient, c being limb i and cur what it is taken from
BigDivRest(u, i, v, cur, c) ==
    BigDivCons(c, BigDivLimbs(u, i - 1, v, BigSub(cur, BigMulSmall(v, c))))

\* long division of the limbs i..1 of u by v, rem being what is left of the higher
\* limbs: <<the limbs i..1 of the quotient, highest first, the remainder>>
BigDivLimbs(u, i, v, rem) ==
    IF i = 0 THEN <<<<>>, rem>>
    ELSE BigDivRest(u, i, v, BigNorm(<<u[i]>> \o rem), QuotLimb(BigNorm(<<u[i]>> \o rem), v))

Reverse(s) == [i \in 1..Len(s) |-> s[Len(s) + 1 - i]]

\* the quotient and the remainder of u by v, both shifted left by s bits
BigDivResult(r, s) == <<BigNorm(Reverse(r[1])), BigShr(r[2], s)>>

\* u by v, the top limb of v at least Base / 2
BigDivShifted(u, v, s) ==
    BigDivResult(BigDivLimbs(u, Len(u) - Len(v) + 1, v, SubSeq(u, Len(u) - Len(v) + 2, Len(u))), s)

\* <<p \div q, p % q>>, for q > 0
BigDivMod(p, q) ==
    IF BigCmp(p, q) < 0 THEN <<<<>>, p>>
    ELSE BigDivShifted(BigShl(p, 15 - BitLen(q[Len(q)])), BigShl(q, 15 - BitLen(q[Len(q)])),
                       15 - BitLen(q[Len(q)]))

\* whole, or the next whole number when twice, the sign of the dropped part against
\* one half, says so: up above one half, to the even number on one half
BigRoundEven(whole, twice) ==
    IF twice > 0 \/ (twice = 0 /\ BigOdd(whole)) THEN BigAdd(whole, <<1>>) ELSE whole

\* up from one half on
BigRoundUp(whole, twice) == IF twice >= 0 THEN BigAdd(whole, <<1>>) ELSE whole

\* what a / 2^n drops, against one half: -1, 0 or 1
BigDropped(a, n) == BigCmp(BigShl(BigSub(a, BigShl(BigShr(a, n), n)), 1), BigShl(<<1>>, n))

\* the whole number nearest to a / 2^n, the even one on a tie
BigShrRound(a, n) ==
    IF n <= 0 THEN BigShl(a, -n) ELSE BigRoundEven(BigShr(a, n), BigDropped(a, n))

\* the whole number nearest to a / 2^n, the larger one on a tie
BigShrRoundUp(a, n) ==
    IF n <= 0 THEN BigShl(a, -n) ELSE BigRoundUp(BigShr(a, n), BigDropped(a, n))

(***************************************************************************)
(* Binary floating point: a mantissa m of 53 bits and an exponent e stand  *)
(* for m * 2^e.                                                            *)
(***************************************************************************)
\* a mantissa of 54 bits after rounding up is 2^53
Renormal(m, e) == IF BigBitLen(m) = 54 THEN [m |-> BigShr(m, 1), e |-> e + 1] ELSE [m |-> m, e |-> e]

\* the double nearest to p * 2^ex, for p > 0, ties to the even mantissa
RoundBig(p, ex) == Renormal(BigShrRound(p, BigBitLen(p) - 53), ex + BigBitLen(p) - 53)

\* what the lowest extra bits of the quotient qr = <<p \div q, p % q>> and its
\* remainder drop, against one half: -1, 0 or 1
QuotDropped(qr, extra) ==
    LET dropped == Limb(qr[1], 1) % 2^extra
        half == 2^(extra - 1)
    IN  IF dropped > half \/ (dropped = half /\ Len(qr[2]) > 0) THEN 1
        ELSE IF dropped = half THEN 0 ELSE -1

\* the quotient qr without its lowest extra bits, rounded
RoundKept(qr, ex, extra) ==
    Renormal(BigRoundEven(BigShr(qr[1], extra), QuotDropped(qr, extra)), ex + extra)

\* the quotient qr = <<p \div q, p % q>> of 55 or 56 bits, rounded to 53
RoundQuotient(qr, ex) == RoundKept(qr, ex, BigBitLen(qr[1]) - 53)

\* the double nearest to (p / q) * 2^(ex - sh), the quotient of p * 2^sh by q
\* having 55 or 56 bits
RoundShifted(p, q, ex, sh) ==
    RoundQuotient(BigDivMod(BigShl(p, IF sh > 0 THEN sh ELSE 0), BigShl(q, IF sh < 0 THEN -sh ELSE 0)),
                  ex - sh)

\* the double nearest to (p / q) * 2^ex, for p, q > 0, ties to the even mantissa
RoundRatio(p, q, ex) == RoundShifted(p, q, ex, 55 - (BigBitLen(p) - BigBitLen(q)))

(***************************************************************************)
(* Python numbers.                                                         *)
(***************************************************************************)
\* an int is its value; a float is a sign and the magnitude m * 2^e, m of 53 bits
PyInt(v) == [t |-> "int", v |-> v]
FloatZero == [t |-> "float", neg |-> FALSE, m |-> <<>>, e |-> 0]
MakeFloat(neg, me) == [t |-> "float", neg |-> neg, m |-> me.m, e |-> me.e]

\* the float written as the decimal literal v / 10^6
PyFloat(v) ==
    IF v = 0 THEN FloatZero
    ELSE MakeFloat(v < 0, RoundRatio(BigFromInt(Abs(v)), BigFromInt(Unit), 0))

IsNeg(x) == IF x.t = "int" THEN x.v < 0 ELSE x.neg
Mant(x) == IF x.t = "int" THEN BigFromInt(Abs(x.v)) ELSE x.m
Expo(x) == IF x.t = "int" THEN 0 ELSE x.e
IsZero(x) == IF x.t = "int" THEN x.v = 0 ELSE Len(x.m) = 0

\* |a| against |b|: -1, 0 or 1
MagCmp(a, b) ==
    BigCmp(BigShl(Mant(a), IF Expo(a) > Expo(b) THEN Expo(a) - Expo(b) ELSE 0),
           BigShl(Mant(b), IF Expo(b) > Expo(a) THEN Expo(b) - Expo(a) ELSE 0))

\* a against b: -1, 0 or 1
NumCmp(a, b) ==
    IF IsZero(a) /\ IsZero(b) THEN 0
    ELSE IF IsZero(a) THEN (IF IsNeg(b) THEN 1 ELSE -1)
    ELSE IF IsZero(b) THEN (IF IsNeg(a) THEN -1 ELSE 1)
    ELSE IF IsNeg(a) # IsNeg(b) THEN (IF IsNeg(a) THEN -1 ELSE 1)
    ELSE (IF IsNeg(a) THEN -1 ELSE 1) * MagCmp(a, b)

\* a / b, for b # 0
TrueDiv(a, b) ==
    IF IsZero(a) \/ IsZero(b) THEN FloatZero
    ELSE MakeFloat(IsNeg(a) # IsNeg(b), RoundRatio(Mant(a), Mant(b), Expo(a) - Expo(b)))

RoundHalfUp(x) ==
    IF IsZero(x) THEN PyInt(0)
    ELSE PyInt((IF x.neg THEN -1 ELSE 1) * BigToInt(BigShrRoundUp(x.m, -x.e)))

\* round(x) of a float: the nearest int, the even one on a tie
PyRound(x) ==
    IF IsZero(x) THEN PyInt(0)
    ELSE PyInt((IF x.neg THEN -1 ELSE 1) * BigToInt(BigShrRound(x.m, -x.e)))

\* k * x, k an int
NumMul(k, x) ==
    IF x.t = "int" THEN PyInt(k.v * x.v)
    ELSE IF k.v = 0 \/ IsZero(x) THEN FloatZero
    ELSE MakeFloat((k.v < 0) # x.neg, RoundBig(BigMul(x.m, BigFromInt(Abs(k.v))), x.e))

\* max(a, b)
PyMax(a, b) == IF NumCmp(b, a) > 0 THEN b ELSE a

(***************************************************************************)
(* Numbers as decimal text: str(), f-string formatting, float().           *)
(***************************************************************************)
\* the quotient qr = <<num \div den, num % den>> to the nearest whole number, the
\* even one on a tie
BigQuotRound(qr, den) == BigRoundEven(qr[1], BigCmp(BigShl(qr[2], 1), den))

\* the whole number nearest to num / den, the even one on a tie
BigDivRound(num, den) == BigQuotRound(BigDivMod(num, den), den)

\* the whole number nearest to |x| * 10^p, the even one on a tie
ScaledRound(x, p) ==
    IF IsZero(x) THEN <<>>
    ELSE BigDivRound(BigShl(BigMulPow10(Mant(x), IF p > 0 THEN p ELSE 0), IF Expo(x) > 0 THEN Expo(x) ELSE 0),
                     BigShl(BigPow10(IF p < 0 THEN -p ELSE 0), IF Expo(x) < 0 THEN -Expo(x) ELSE 0))

StripLeft0(ds) ==
    LET used == {i \in 1..Len(ds) : ds[i] # 0}
    IN  IF used = {} THEN <<>> ELSE SubSeq(ds, CHOOSE i \in used : \A j \in used : i <= j, Len(ds))

StripRight0(ds) ==
    LET used == {i \in 1..Len(ds) : ds[i] # 0}
    IN  IF used = {} THEN <<>> ELSE SubSeq(ds, 1, Highest(used))

FourDigits(n) == <<n \div 1000, (n \div 100) % 10, (n \div 10) % 10, n % 10>>

RECURSIVE BigGroups(_)
\* the digits of the quotient qr[1], then the four digits of the remainder qr[2]
BigGroupsOf(qr) == BigGroups(qr[1]) \o FourDigits(BigToInt(qr[2]))

\* the decimal digits of a in groups of four, highest first
BigGroups(a) == IF Len(a) = 0 THEN <<>> ELSE BigGroupsOf(BigDivMod(a, <<10000>>))

\* the decimal digits of a, highest first; none for zero
BigDigits(a) == StripLeft0(BigGroups(a))

RECURSIVE BigFromDigits(_)
\* the number written by the decimal digits ds, highest first
BigFromDigits(ds) ==
    IF Len(ds) = 0 THEN <<>>
    ELSE BigAdd(BigMulSmall(BigFromDigits(SubSeq(ds, 1, Len(ds) - 1)), 10), BigFromInt(ds[Len(ds)]))

RECURSIVE DigitText(_)
DigitText(ds) == IF Len(ds) = 0 THEN "" ELSE Digit(ds[1]) \o DigitText(Tail(ds))

Zeros(n) == [i \in 1..n |-> 0]

\* the double nearest to c * 10^e10, for c > 0
RoundScaled(c, e10) ==
    RoundRatio(BigMulPow10(c, IF e10 > 0 THEN e10 ELSE 0), BigPow10(IF e10 < 0 THEN -e10 ELSE 0), 0)

\* the float nearest to the decimal with digits ds times 10^e10
FloatOfDecimal(neg, ds, e10) ==
    IF \A i \in 1..Len(ds) : ds[i] = 0 THEN FloatZero
    ELSE MakeFloat(neg, RoundScaled(BigFromDigits(ds), e10))

\* |x| against 10^j: -1, 0 or 1
Pow10Cmp(x, j) ==
    BigCmp(BigShl(BigMulPow10(Mant(x), IF j < 0 THEN -j ELSE 0), IF Expo(x) > 0 THEN Expo(x) ELSE 0),
           BigShl(BigPow10(IF j > 0 THEN j ELSE 0), IF Expo(x) < 0 THEN -Expo(x) ELSE 0))

\* the d with 10^(d-1) <= |x| < 10^d, for 10^-13 <= |x| < 10^12
DecimalExponent(x) == 1 + Highest({j \in -13..11 : Pow10Cmp(x, j) >= 0})

\* |x| rounded to n significant digits is read back as x; d is DecimalExponent(x)
RoundTrips(x, d, n) == RoundScaled(ScaledRound(x, n - d), d - n) = [m |-> x.m, e |-> x.e]

RECURSIVE ShortestFrom(_, _, _)
\* the least number of significant digits, n or more, that are read back as x
ShortestFrom(x, d, n) == IF n = 17 \/ RoundTrips(x, d, n) THEN n ELSE ShortestFrom(x, d, n + 1)

\* the least number of significant digits that are read back as x
ShortestDigits(x, d) == ShortestFrom(x, d, 1)

TwoDigits(n) == IF n < 10 THEN "0" \o Digit(n) ELSE NatStr(n)

\* the text of the digits ds with the decimal point after the first decpt of them
ReprText(sign, ds, decpt) ==
    IF decpt <= -4 \/ decpt > 16
    THEN sign \o Digit(ds[1])
         \o (IF Len(ds) > 1 THEN "." \o DigitText(Tail(ds)) ELSE "")
         \o "e" \o (IF decpt - 1 < 0 THEN "-" ELSE "+") \o TwoDigits(Abs(decpt - 1))
    ELSE IF decpt <= 0 THEN sign \o "0." \o DigitText(Zeros(-decpt) \o ds)
    ELSE IF decpt >= Len(ds) THEN sign \o DigitText(ds \o Zeros(decpt - Len(ds))) \o ".0"
    ELSE sign \o DigitText(SubSeq(ds, 1, decpt)) \o "." \o DigitText(SubSeq(ds, decpt + 1, Len(ds)))

\* the text of the digits ds of |x| rounded to n significant digits: rounding up
\* to a power of ten gives one digit more
ReprOf(x, d, n, ds) == ReprText(IF x.neg THEN "-" ELSE "", StripRight0(ds), d + (Len(ds) - n))

\* the n significant digits of x, n and d as above
ReprDigits(x, d, n) == ReprOf(x, d, n, BigDigits(ScaledRound(x, n - d)))

ReprFrom(x, d) == ReprDigits(x, d, ShortestDigits(x, d))

\* repr(x) of a float
FloatRepr(x) == IF IsZero(x) THEN "0.0" ELSE ReprFrom(x, DecimalExponent(x))

\* str(x)
PyStr(x) ==
    IF x.t = "int" THEN (IF x.v < 0 THEN "-" ELSE "") \o NatStr(Abs(x.v)) ELSE FloatRepr(x)

\* the digits ds, places or more of them, as a decimal with places fraction digits
FixedPoint(sign, ds, places) ==
    sign \o DigitText(SubSeq(ds, 1, Len(ds) - places))
    \o (IF places > 0 THEN "." \o DigitText(SubSeq(ds, Len(ds) - places + 1, Len(ds))) ELSE "")

\* the digits ds of a whole number as a decimal with places fraction digits
FixedText(sign, ds, places) == FixedPoint(sign, Zeros(places + 1 - Len(ds)) \o ds, places)

\* f"{x:.{places}f}"
FormatFixed(x, places) ==
    FixedText(IF IsNeg(x) THEN "-" ELSE "", BigDigits(ScaledRound(x, places)), places)


\* the decimal digits of the text s, a digit for each character
DigitsOf(s) == [i \in 1..Len(s) |-> IndexIn(SubSeq(s, i, i), "0123456789", 1) - 1]

\* the text s without the sign in front of it
Unsigned(s) == IF StartsWith(s, "-") \/ StartsWith(s, "+") THEN SubSeq(s, 2, Len(s)) ELSE s

\* the int written by the text s: digits after an optional sign; 0 for no text
IntOfText(s) ==
    (IF StartsWith(s, "-") THEN -1 ELSE 1) * BigToInt(BigFromDigits(DigitsOf(Unsigned(s))))

\* the digits of the text mant, which has its '.' at dot (0 for none), and the
\* power of ten of the last of them
DecimalDigits(neg, mant, dot, expo) ==
    [neg |-> neg,
     ds |-> StripLeft0(DigitsOf(IF dot = 0 THEN mant
                                ELSE SubSeq(mant, 1, dot - 1) \o SubSeq(mant, dot + 1, Len(mant)))),
     e10 |-> expo - (IF dot = 0 THEN 0 ELSE Len(mant) - dot)]

\* the text t = digits[.digits][e[+-]digits], which has its 'e' at epos (0 for none)
DecimalParts(neg, t, epos) ==
    DecimalDigits(neg, IF epos = 0 THEN t ELSE SubSeq(t, 1, epos - 1),
                  IndexIn(".", IF epos = 0 THEN t ELSE SubSeq(t, 1, epos - 1), 1),
                  IF epos = 0 THEN 0 ELSE IntOfText(SubSeq(t, epos + 1, Len(t))))

\* decimal text [-]digits[.digits][e[+-]digits] as a sign, digits ds and a power
\* of ten e10: the number written is (-1)^neg * ds * 10^e10
DecimalOfText(s) == DecimalParts(StartsWith(s, "-"), Unsigned(s), IndexIn("e", Unsigned(s), 1))

\* the float of a decimal d = [neg, ds, e10]
FloatOfParts(d) == FloatOfDecimal(d.neg, d.ds, d.e10)

\* float(text) of decimal text
ParseFloat(s) == FloatOfParts(DecimalOfText(s))

\* x in millionths, to the nearest millionth
Micro(x) ==
    IF x.t = "int" THEN x.v * Unit
    ELSE (IF IsNeg(x) THEN -1 ELSE 1) * BigToInt(ScaledRound(x, 6))

\* the text a user types for v millionths: 50, 0.0015, -0.5
ArgText(v) ==
    (IF v < 0 THEN "-" ELSE "") \o NatStr(Abs(v) \div Unit)
    \o (IF v % Unit = 0 THEN "" ELSE "." \o RStrip0(PadLeft(NatStr(Abs(v) % Unit), 6)))

(***************************************************************************)
(* The precision table and the normalisation of price and size.            *)
(***************************************************************************)
\* the float whose value is mantissa * 2^exponent, the mantissa in limbs
Double(mantissa, exponent) == [t |-> "float", neg |-> FALSE, m |-> mantissa, e |-> exponent]

\* SYMBOL_PRECISION.  A step written as a float literal is the double Python reads
\* the literal as, a step written 100 is the int 100:
\*   0.1     is 7205759403792794 * 2^-56, the limbs <<6554, 13107, 26214, 204>>
\*   0.01    is 5764607523034235 * 2^-59, the limbs <<5243, 3932, 27525, 163>>
\*   0.001   is 4611686018427388 * 2^-62, the limbs <<10748, 9699, 2359, 131>>
\*   0.0001  is 7378697629483821 * 2^-66, the limbs <<17197, 22072, 23435, 209>>
\*   0.00001 is 5902958103587057 * 2^-69, the limbs <<26865, 4550, 25302, 167>>
SYMBOL_PRECISION ==
    [cmt_btcusdt |-> [price_step |-> Double(<<6554, 13107, 26214, 204>>, -56),
                      size_step |-> Double(<<10748, 9699, 2359, 131>>, -62),
                      min_size |-> Double(<<10748, 9699, 2359, 131>>, -62)],
     cmt_ethusdt |-> [price_step |-> Double(<<5243, 3932, 27525, 163>>, -59),
                      size_step |-> Double(<<10748, 9699, 2359, 131>>, -62),
                      min_size |-> Double(<<10748, 9699, 2359, 131>>, -62)],
     cmt_solusdt |-> [price_step |-> Double(<<10748, 9699, 2359, 131>>, -62),
                      size_step |-> Double(<<6554, 13107, 26214, 204>>, -56),
                      min_size |-> Double(<<6554, 13107, 26214, 204>>, -56)],
     cmt_dogeusdt |-> [price_step |-> Double(<<26865, 4550, 25302, 167>>, -69),
                       size_step |-> PyInt(100),
                       min_size |-> PyInt(100)],
     cmt_xrpusdt |-> [price_step |-> Double(<<17197, 22072, 23435, 209>>, -66),
                      size_step |-> PyInt(10),
                      min_size |-> PyInt(10)],
     cmt_adausdt |-> [price_step |-> Double(<<17197, 22072, 23435, 209>>, -66),
                      size_step |-> PyInt(10),
                      min_size |-> PyInt(10)],
     cmt_bnbusdt |-> [price_step |-> Double(<<5243, 3932, 27525, 163>>, -59),
                      size_step |-> Double(<<6554, 13107, 26214, 204>>, -56),
                      min_size |-> Double(<<6554, 13107, 26214, 204>>, -56)],
     cmt_ltcusdt |-> [price_step |-> Double(<<5243, 3932, 27525, 163>>, -59),
                      size_step |-> Double(<<6554, 13107, 26214, 204>>, -56),
                      min_size |-> Double(<<6554, 13107, 26214, 204>>, -56)]]

\* symbol in SYMBOL_PRECISION
Known(symbol) == symbol \in DOMAIN SYMBOL_PRECISION

\* round_to_step with the quotient always taken up to the next whole number
round_to_step_ceil(value, step) ==
    IF NumCmp(step, PyInt(0)) <= 0 THEN value
    ELSE NumMul(PyInt(PyRound(TrueDiv(value, step)).v + 1), step)

round_to_step(value, step) ==
    IF NumCmp(step, PyInt(0)) <= 0 THEN value
    ELSE NumMul(PyRound(TrueDiv(value, step)), step)

adjust_price_to_precision(price, symbol) ==
    IF ~Known(symbol) THEN price
    ELSE round_to_step(price, SYMBOL_PRECISION[symbol].price_step)

\* adjust_size_to_precision without the floor at min_size
adjust_size_no_floor(size, symbol) ==
    IF ~Known(symbol) THEN size
    ELSE round_to_step(size, SYMBOL_PRECISION[symbol].size_step)

\* adjust_size_to_precision falling back to a step of 0.001 for a symbol
\* outside the table
adjust_size_default_step(size, symbol) ==
    IF ~Known(symbol) THEN PyMax(round_to_step(size, PyFloat(1000)), PyFloat(1000))
    ELSE PyMax(round_to_step(size, SYMBOL_PRECISION[symbol].size_step),
               SYMBOL_PRECISION[symbol].min_size)

adjust_size_to_precision(size, symbol) ==
    IF ~Known(symbol) THEN size
    ELSE PyMax(round_to_step(size, SYMBOL_PRECISION[symbol].size_step),
               SYMBOL_PRECISION[symbol].min_size)

\* str(step) of the steps of the table
StepTexts ==
    [step \in UNION {{SYMBOL_PRECISION[symbol].price_step, SYMBOL_PRECISION[symbol].size_step}
                        : symbol \in DOMAIN SYMBOL_PRECISION} |-> PyStr(step)]

\* the number of characters after the last '.' of the text digits
FractionLen(digits) == Len(AfterLastDot(digits, Len(digits)))

\* decimal_places counted one digit short
decimal_places_short(price_step) ==
    IF NumCmp(price_step, PyInt(1)) >= 0 THEN 0
    ELSE FractionLen(RStrip0(Tabled(StepTexts, price_step, PyStr(price_step)))) - 1

\* the decimal places format_price_string derives from price_step
decimal_places(price_step) ==
    IF NumCmp(price_step, PyInt(1)) >= 0 THEN 0
    ELSE FractionLen(RStrip0(Tabled(StepTexts, price_step, PyStr(price_step))))

format_price_string(price, symbol) ==
    IF ~Known(symbol) THEN PyStr(price)
    ELSE FormatFixed(price, decimal_places(SYMBOL_PRECISION[symbol].price_step))

(***************************************************************************)
(* JSON bodies.  A dict is the sequence of its <<key, value>> pairs in     *)
(* insertion order; a value is a str or an int.                            *)
(***************************************************************************)
JStr(s) == [j |-> "str", s |-> s]
JInt(n) == [j |-> "int", n |-> n]

NoBody == [j |-> "NoneType"]
Dict(pairs) == [j |-> "dict", pairs |-> pairs]

\* bool(body) of `if body`: None and the empty dict are false
Truthy(body) == body.j = "dict" /\ Len(body.pairs) > 0

JsonValue(val) ==
    IF val.j = "str" THEN "\"" \o val.s \o "\""
    ELSE IF val.n < 0 THEN "-" \o NatStr(-val.n) ELSE NatStr(val.n)

RECURSIVE JsonPairs(_, _)
JsonPairs(pairs, sep) ==
    IF Len(pairs) = 0 THEN ""
    ELSE "\"" \o pairs[1][1] \o "\"" \o sep[2] \o JsonValue(pairs[1][2])
         \o (IF Len(pairs) = 1 THEN "" ELSE sep[1] \o JsonPairs(Tail(pairs), sep))

\* json.dumps(body): the default separators ", " and ": "
JsonDumps(body) == "{" \o JsonPairs(body.pairs, <<", ", ": ">>) \o "}"

\* a second serialisation of body, by the transport, with compact separators
JsonDumpsCompact(body) == "{" \o JsonPairs(body.pairs, <<",", ":">>) \o "}"

\* the value of key in a dict
RECURSIVE GetPair(_, _)
GetPair(pairs, key) ==
    IF pairs[1][1] = key THEN pairs[1][2] ELSE GetPair(Tail(pairs), key)

Keys(body) == [i \in 1..Len(body.pairs) |-> body.pairs[i][1]]

(***************************************************************************)
(* The signer and send_request.                                            *)
(***************************************************************************)
BASE_URL == "https://api-contract.weex.com"

\* base64(HMAC-SHA256(key, message)) as a symbolic term: equal terms for
\* equal key and message, different terms otherwise
B64HmacSha256(key, message) == [mac |-> "b64-hmac-sha256", key |-> key, message |-> message]

\* generate_signature taking the timestamp from the clock of the process
\* instead of its argument
generate_signature_clock(secret, timestamp, method, request_path, query_string, body) ==
    B64HmacSha256(secret, NatStr(now) \o Upper(method) \o request_path \o query_string \o body)

generate_signature(secret, timestamp, method, request_path, query_string, body) ==
    B64HmacSha256(secret, timestamp \o Upper(method) \o request_path \o query_string \o body)

HeaderNames ==
    {"ACCESS-KEY", "ACCESS-SIGN", "ACCESS-TIMESTAMP", "ACCESS-PASSPHRASE",
     "Content-Type", "locale"}

\* the URL send_request builds
RequestUrl(request_path, query_string) ==
    BASE_URL \o request_path \o
        (IF query_string = "" THEN ""
         ELSE IF StartsWith(query_string, "?") THEN query_string
         ELSE "?" \o query_string)

\* send_request up to the call of the transport, with time.time() read as
\* t_header ms for the ACCESS-TIMESTAMP header and t_sign ms for the signature,
\* body_str the text that is signed and data the text handed to requests.post
BuildRequest(method, request_path, query_string, body, t_sign, t_header, body_str, data) ==
    LET signature == generate_signature(secret_key, NatStr(t_sign), method, request_path,
                                        query_string, body_str)
    IN  [method |-> method, request_path |-> request_path,
         query_string |-> query_string, body |-> body,
         body_str |-> body_str,
         dumps |-> IF ~Truthy(body) THEN 0 ELSE IF data = body_str THEN 1 ELSE 2,
         clock_reads |-> IF t_sign = t_header THEN 1 ELSE 2,
         headers |-> ("ACCESS-KEY" :> api_key) @@ ("ACCESS-SIGN" :> signature)
                     @@ ("ACCESS-TIMESTAMP" :> NatStr(t_header))
                     @@ ("ACCESS-PASSPHRASE" :> access_passphrase)
                     @@ ("Content-Type" :> "application/json")
                     @@ ("locale" :> "zh-CN"),
         url |-> RequestUrl(request_path, query_string),
         data |-> IF method = "POST" THEN data ELSE None]

\* send_request serialising the body a second time for the transport
send_request_reserialized(method, request_path, query_string, body, t) ==
    BuildRequest(method, request_path, query_string, body, t, t,
                 IF Truthy(body) THEN JsonDumps(body) ELSE "",
                 IF Truthy(body) THEN JsonDumpsCompact(body) ELSE "")

\* send_request reading the clock again, a millisecond later, for the header
send_request_second_clock_read(method, request_path, query_string, body, t) ==
    LET body_str == IF Truthy(body) THEN JsonDumps(body) ELSE ""
    IN  BuildRequest(method, request_path, query_string, body, t, t + 1, body_str, body_str)

\* send_request: one reading t of the clock, one serialisation body_str of the
\* body, both used for the signature and for the request
send_request(method, request_path, query_string, body, t) ==
    LET body_str == IF Truthy(body) THEN JsonDumps(body) ELSE ""
    IN  BuildRequest(method, request_path, query_string, body, t, t, body_str, body_str)

\* requests.get or requests.post is reached: any other method leaves
\* `response` unbound and send_request raises UnboundLocalError
Transmits(method) == method \in {"GET", "POST"}




(***************************************************************************)
(* The precision functions applied to drawn inputs (SpecPrecision).        *)
(***************************************************************************)
UnknownSymbol == "cmt_unknown"

AllSymbols == DOMAIN SYMBOL_PRECISION \cup {UnknownSymbol}

\* steps outside the table: odd, a power of two, whole, zero, negative
ExtraSteps == {PyFloat(3), PyFloat(250000), PyInt(2), PyFloat(1000000), PyFloat(0), PyFloat(-1000)}

StepsFor(symbol) ==
    IF Known(symbol)
    THEN {SYMBOL_PRECISION[symbol].size_step, SYMBOL_PRECISION[symbol].price_step}
    ELSE ExtraSteps

\* the values, in millionths, around the multiples and the midpoints of a step
Grid(step) ==
    LET base == IF Micro(step) > 1 THEN Micro(step) ELSE 2000
        half == base \div 2
    IN  {k * half + d : k \in (-2)..MaxHalfSteps, d \in {-1, 0, 1}}

\* v millionths as the Python numbers that hold it: the float of the literal, and
\* an int when it is whole
NumbersOf(v) == {PyFloat(v)} \cup (IF v % Unit = 0 THEN {PyInt(v \div Unit)} ELSE {})

NoCalc == [fn |-> "none"]

NoOp == [name |-> "none", requests |-> <<>>]

InitPrecision ==
    /\ pc = "ready"
    /\ exit_code = None
    /\ api_key = None
    /\ secret_key = None
    /\ access_passphrase = None
    /\ now = 0
    /\ op = NoOp
    /\ wire = <<>>
    /\ \E symbol \in AllSymbols :
         \E step \in StepsFor(symbol) :
           \E v \in Grid(step) :
             \E value \in NumbersOf(v) :
               calc = [fn |-> "input", symbol |-> symbol, step |-> step,
                       value |-> value, prev |-> None, out |-> None]

NotCalc == UNCHANGED <<pc, exit_code, api_key, secret_key, access_passphrase, now, op, wire>>

ApplyRoundToStep ==
    /\ calc.fn = "input"
    /\ calc' = [calc EXCEPT !.fn = "round_to_step",
                            !.out = round_to_step(calc.value, calc.step)]
    /\ NotCalc

ApplyRoundToStepAgain ==
    /\ calc.fn = "round_to_step"
    /\ calc' = [calc EXCEPT !.fn = "round_to_step_twice", !.prev = calc.out,
                            !.out = round_to_step(calc.out, calc.step)]
    /\ NotCalc

ApplyAdjustSize ==
    /\ calc.fn = "input"
    /\ calc' = [calc EXCEPT !.fn = "adjust_size",
                            !.out = adjust_size_to_precision(calc.value, calc.symbol)]
    /\ NotCalc

ApplyAdjustPrice ==
    /\ calc.fn = "input"
    /\ calc' = [calc EXCEPT !.fn = "adjust_price",
                            !.out = adjust_price_to_precision(calc.value, calc.symbol)]
    /\ NotCalc

ApplyFormatPrice ==
    /\ calc.fn = "input"
    /\ calc' = [calc EXCEPT !.fn = "format_price",
                            !.out = format_price_string(calc.value, calc.symbol)]
    /\ NotCalc

\* place_order formats the price it has adjusted
ApplyFormatAdjusted ==
    /\ calc.fn = "adjust_price"
    /\ calc' = [calc EXCEPT !.fn = "format_adjusted", !.prev = calc.out,
                            !.out = format_price_string(calc.out, calc.symbol)]
    /\ NotCalc

NextPrecision ==
    \/ ApplyRoundToStep
    \/ ApplyRoundToStepAgain
    \/ ApplyAdjustSize
    \/ ApplyAdjustPrice
    \/ ApplyFormatPrice
    \/ ApplyFormatAdjusted

SpecPrecision == InitPrecision /\ [][NextPrecision]_vars

(***************************************************************************)
(* The transport and the operations.                                       *)
(***************************************************************************)
\* what requests.get / requests.post does with a request: raises, or returns
\* a response with a status code and a body
Responses ==
    {[kind |-> "exception", status_code |-> 0, json |-> "none"],
     [kind |-> "response", status_code |-> 200, json |-> "order_id"],
     [kind |-> "response", status_code |-> 200, json |-> "no_order_id"],
     [kind |-> "response", status_code |-> 200, json |-> "invalid"],
     [kind |-> "response", status_code |-> 400, json |-> "error"],
     [kind |-> "response", status_code |-> 500, json |-> "invalid"]}

\* the response of an operation that asked for none
NoResponse == [kind |-> "none", status_code |-> 0, json |-> "none"]

\* the price of place_order when the caller passes none
NoPrice == [t |-> "NoneType"]

\* the step of the values tried with a symbol outside the table: 3.456 is
\* three half steps
UnknownStep == PyFloat(2304000)

SizeStepOf(symbol) == IF Known(symbol) THEN SYMBOL_PRECISION[symbol].size_step ELSE UnknownStep
PriceStepOf(symbol) == IF Known(symbol) THEN SYMBOL_PRECISION[symbol].price_step ELSE UnknownStep

\* the sizes, in millionths, orders are placed with: below zero, at the
\* midpoints below and above one step, and at MaxOrderSteps steps
OrderSizeValues(symbol) ==
    {k * (Micro(SizeStepOf(symbol)) \div 2) : k \in {-1, 1, 3, 2 * MaxOrderSteps}}

\* the prices, in millionths, of limit orders: zero, a midpoint, MaxOrderSteps steps
OrderPriceValues(symbol) ==
    {k * (Micro(PriceStepOf(symbol)) \div 2) : k \in {0, 3, 2 * MaxOrderSteps}}

\* the sizes and prices a caller passes to place_order, as floats
OrderSizes == [symbol \in AllSymbols |-> {PyFloat(v) : v \in OrderSizeValues(symbol)}]
OrderPrices == [symbol \in AllSymbols |-> {PyFloat(v) : v \in OrderPriceValues(symbol)}]

\* the sizes and prices given to the order command, as text
OrderSizeTexts == [symbol \in AllSymbols |-> {ArgText(v) : v \in OrderSizeValues(symbol)}]
OrderPriceTexts == [symbol \in AllSymbols |-> {ArgText(v) : v \in OrderPriceValues(symbol)}]

\* adjust_size_to_precision, adjust_price_to_precision, str() and
\* format_price_string of those sizes and prices
AdjustedSizes ==
    [symbol \in AllSymbols |->
        [size \in OrderSizes[symbol] |-> adjust_size_to_precision(size, symbol)]]

AdjustedPrices ==
    [symbol \in AllSymbols |->
        [price \in OrderPrices[symbol] |-> adjust_price_to_precision(price, symbol)]]

SizeTexts ==
    [size \in UNION {Range(AdjustedSizes[symbol]) : symbol \in AllSymbols} |-> PyStr(size)]

PriceTexts ==
    [symbol \in AllSymbols |->
        [price \in Range(AdjustedPrices[symbol]) |-> format_price_string(price, symbol)]]

\* float() of the texts of the order command and of the texts sent for a
\* symbol outside the table
ParsedTexts ==
    [s \in UNION {OrderSizeTexts[symbol] \cup OrderPriceTexts[symbol] : symbol \in AllSymbols}
           \cup {PyStr(x) : x \in OrderSizes[UnknownSymbol] \cup OrderPrices[UnknownSymbol]}
        |-> ParseFloat(s)]

\* what an operation left behind: it returned a value or raised
Returned(value) == [outcome |-> "returned", value |-> value]
Raised(exception) == [outcome |-> "raised", value |-> exception]

\* side_type with the two sides exchanged
side_type_swapped(side) == IF side = "buy" THEN "2" ELSE "1"

\* side_type of place_order: "1" opens long (buy), "2" opens short (sell)
side_type(side) == IF side = "buy" THEN "1" ELSE "2"

\* match_price of place_order: "0" is a limit order, "1" a market order
match_price(order_type) == IF order_type = "market" THEN "1" ELSE "0"

\* the check of the price with a missing price let through
MissingPriceNever(order_type, price) == FALSE

\* place_order refuses a limit order whose price is None
MissingPrice(order_type, price) == order_type = "limit" /\ price = NoPrice

\* the record of one call of place_order: its arguments, the values it
\* adjusted, the calls of send_request it made, how it ended and the last
\* reading of the clock
OrderCall(symbol, side, order_type, size, price, adjusted_size, adjusted_price, requests, response, end, clock) ==
    [name |-> "place_order",
     args |-> [symbol |-> symbol, side |-> side, order_type |-> order_type,
               size |-> size, price |-> price],
     adjusted_size |-> adjusted_size, adjusted_price |-> adjusted_price,
     requests |-> requests, response |-> response, end |-> end, clock |-> clock]

\* what place_order returns for the response, or the exception that leaves it
OrderEnd(resp) ==
    IF resp.kind = "exception" THEN Raised("ConnectionError")
    ELSE IF resp.status_code # 200 THEN Returned(None)
    ELSE IF resp.json = "invalid" THEN Raised("JSONDecodeError")
    ELSE IF resp.json = "order_id" THEN Returned("12345")
    ELSE Returned("unknown")

\* the body place_order builds
OrderBody(symbol, side, order_type, client_oid, size_str, price_str) ==
    Dict(<< <<"symbol", JStr(symbol)>>,
            <<"client_oid", JStr(client_oid)>>,
            <<"size", JStr(size_str)>>,
            <<"type", JStr(side_type(side))>>,
            <<"order_type", JStr("0")>>,
            <<"match_price", JStr(match_price(order_type))>>,
            <<"price", JStr(price_str)>> >>)

\* place_order from the point where adjusted_size and adjusted_price are known
place_order_adjusted(symbol, side, order_type, size, price, t1, t2, resp, adjusted_size, adjusted_price) ==
    OrderCall(symbol, side, order_type, size, price, adjusted_size, adjusted_price,
              <<send_request("POST", "/capi/v2/order/placeOrder", "",
                             OrderBody(symbol, side, order_type, NatStr(t1),
                                       Tabled(SizeTexts, adjusted_size, PyStr(adjusted_size)),
                                       IF order_type = "limit"
                                       THEN Tabled(PriceTexts[symbol], adjusted_price,
                                                   format_price_string(adjusted_price, symbol))
                                       ELSE "0"),
                             t2)>>,
              resp, OrderEnd(resp), t2)

\* place_order from the point where adjusted_size is known
place_order_sized(symbol, side, order_type, size, price, t1, t2, resp, adjusted_size) ==
    IF MissingPrice(order_type, price)
    THEN OrderCall(symbol, side, order_type, size, price, adjusted_size, NoPrice,
                   <<>>, NoResponse, Returned(None), t1)
    ELSE IF order_type = "limit" /\ price = NoPrice
    THEN \* round_to_step divides None by the step
         OrderCall(symbol, side, order_type, size, price, adjusted_size, NoPrice,
                   <<>>, NoResponse, Raised("TypeError"), t1)
    ELSE place_order_adjusted(symbol, side, order_type, size, price, t1, t2, resp,
                              adjusted_size,
                              IF order_type = "limit"
                              THEN Tabled(AdjustedPrices[symbol], price,
                                          adjust_price_to_precision(price, symbol))
                              ELSE NoPrice)

\* place_order: the local values it computes, the calls of send_request it
\* makes and how it ends, with the clock read as t1 for client_oid and as t2
\* in send_request, and resp what the transport does
place_order(symbol, side, order_type, size, price, t1, t2, resp) ==
    place_order_sized(symbol, side, order_type, size, price, t1, t2, resp,
                      Tabled(AdjustedSizes[symbol], size,
                             adjust_size_to_precision(size, symbol)))

\* the requests of an operation that reached requests.get or requests.post
Transmitted(requests) == SelectSeq(requests, LAMBDA r : Transmits(r.method))

\* main() runs one command and the process ends
NotApi ==
    /\ pc' = "done"
    /\ UNCHANGED <<exit_code, api_key, secret_key, access_passphrase, calc>>

\* a caller invokes place_order
PlaceOrder ==
    /\ pc = "ready"
    /\ \E symbol \in AllSymbols, side \in {"buy", "sell"}, order_type \in {"market", "limit"} :
       \E size \in OrderSizes[symbol] :
       \E price \in OrderPrices[symbol] \cup {NoPrice} :
       \E t1 \in now..MaxClock :
       \E t2 \in t1..MaxClock :
       \E resp \in Responses :
          \E call \in {place_order(symbol, side, order_type, size, price, t1, t2, resp)} :
              /\ op' = call
              /\ wire' = Transmitted(call.requests)
              /\ now' = call.clock
    /\ NotApi

\* what the order command leaves behind after its call of place_order
OrderCommand(args, call) ==
    [name |-> "cmd_order", args |-> args, called |-> <<call>>,
     requests |-> call.requests,
     end |-> IF call.end.outcome = "raised" THEN call.end ELSE Returned(None),
     clock |-> call.clock]

\* cmd_order: the order command, args.price being None when --price is absent
cmd_order(args, t1, t2, resp) ==
    IF args.type = "limit" /\ args.price \in {None, ""}
    THEN [name |-> "cmd_order", args |-> args, called |-> <<>>, requests |-> <<>>,
          end |-> Returned(None), clock |-> now]
    ELSE OrderCommand(args,
                      place_order(args.symbol, args.side, args.type,
                                  Tabled(ParsedTexts, args.size, ParseFloat(args.size)),
                                  IF args.type = "limit"
                                  THEN Tabled(ParsedTexts, args.price, ParseFloat(args.price))
                                  ELSE NoPrice,
                                  t1, t2, resp))

\* the order command is run
CmdOrder ==
    /\ pc = "ready"
    /\ \E symbol \in AllSymbols, side \in {"buy", "sell"}, type \in {"market", "limit"} :
       \E size \in OrderSizeTexts[symbol] :
       \E price \in {None, ""} \cup OrderPriceTexts[symbol] :
       \E t1 \in now..MaxClock :
       \E t2 \in t1..MaxClock :
       \E resp \in Responses :
          \E run \in {cmd_order([symbol |-> symbol, side |-> side, type |-> type,
                                   size |-> size, price |-> price], t1, t2, resp)} :
              /\ op' = run
              /\ wire' = Transmitted(run.requests)
              /\ now' = run.clock
    /\ NotApi

\* cancel_order
cancel_order(order_id, t, resp) ==
    [name |-> "cancel_order", args |-> [order_id |-> order_id],
     requests |-> <<send_request("POST", "/capi/v2/order/cancel_order", "",
                                 Dict(<< <<"orderId", JStr(order_id)>> >>), t)>>,
     response |-> resp,
     end |-> IF resp.kind = "exception" THEN Raised("ConnectionError")
             ELSE IF resp.status_code = 200 THEN Returned("True") ELSE Returned("False"),
     clock |-> t]

CancelOrder ==
    /\ pc = "ready"
    /\ \E order_id \in {"12345", ""}, t \in now..MaxClock, resp \in Responses :
          \E call \in {cancel_order(order_id, t, resp)} :
              /\ op' = call
              /\ wire' = Transmitted(call.requests)
              /\ now' = call.clock
    /\ NotApi

\* get_ticker answering a non-200 response with a second request and its result
get_ticker_retried(symbol, t, resp) ==
    [name |-> "get_ticker", args |-> [symbol |-> symbol],
     requests |-> IF resp.kind = "response" /\ resp.status_code # 200
                  THEN <<send_request("GET", "/capi/v2/market/ticker", "?symbol=" \o symbol,
                                      NoBody, t),
                         send_request("GET", "/capi/v2/market/ticker", "?symbol=" \o symbol,
                                      NoBody, t)>>
                  ELSE <<send_request("GET", "/capi/v2/market/ticker", "?symbol=" \o symbol,
                                      NoBody, t)>>,
     response |-> resp,
     end |-> IF resp.kind = "exception" THEN Raised("ConnectionError") ELSE Returned("json"),
     clock |-> t]

\* get_ticker
get_ticker(symbol, t, resp) ==
    [name |-> "get_ticker", args |-> [symbol |-> symbol],
     requests |-> <<send_request("GET", "/capi/v2/market/ticker", "?symbol=" \o symbol,
                                 NoBody, t)>>,
     response |-> resp,
     end |-> IF resp.kind = "exception" THEN Raised("ConnectionError")
             ELSE IF resp.status_code # 200 THEN Returned(None)
             ELSE IF resp.json = "invalid" THEN Raised("JSONDecodeError")
             ELSE Returned("json"),
     clock |-> t]

GetTicker ==
    /\ pc = "ready"
    /\ \E symbol \in AllSymbols, t \in now..MaxClock, resp \in Responses :
          \E call \in {get_ticker(symbol, t, resp)} :
              /\ op' = call
              /\ wire' = Transmitted(call.requests)
              /\ now' = call.clock
    /\ NotApi

\* how an operation that returns response.json() on 200 and None otherwise ends
JsonOrNone(resp) ==
    IF resp.kind = "exception" THEN Raised("ConnectionError")
    ELSE IF resp.status_code # 200 THEN Returned(None)
    ELSE IF resp.json = "invalid" THEN Raised("JSONDecodeError")
    ELSE Returned("json")

\* how an operation that returns True on 200 and False otherwise ends
TrueOrFalse(resp) ==
    IF resp.kind = "exception" THEN Raised("ConnectionError")
    ELSE IF resp.status_code = 200 THEN Returned("True") ELSE Returned("False")

\* get_account_assets
get_account_assets(t, resp) ==
    [name |-> "get_account_assets", args |-> <<>>,
     requests |-> <<send_request("GET", "/capi/v2/account/assets", "", NoBody, t)>>,
     response |-> resp, end |-> JsonOrNone(resp), clock |-> t]

GetAccountAssets ==
    /\ pc = "ready"
    /\ \E t \in now..MaxClock, resp \in Responses :
          \E call \in {get_account_assets(t, resp)} :
              /\ op' = call
              /\ wire' = Transmitted(call.requests)
              /\ now' = call.clock
    /\ NotApi

\* get_current_orders: on 200 the list of the response, or [] when it holds none
get_current_orders(symbol, t, resp) ==
    [name |-> "get_current_orders", args |-> [symbol |-> symbol],
     requests |-> <<send_request("GET", "/capi/v2/order/current", "?symbol=" \o symbol,
                                 NoBody, t)>>,
     response |-> resp,
     end |-> IF resp.kind = "exception" THEN Raised("ConnectionError")
             ELSE IF resp.status_code # 200 THEN Returned(None)
             ELSE IF resp.json = "invalid" THEN Raised("JSONDecodeError")
             ELSE Returned("list"),
     clock |-> t]

GetCurrentOrders ==
    /\ pc = "ready"
    /\ \E symbol \in AllSymbols, t \in now..MaxClock, resp \in Responses :
          \E call \in {get_current_orders(symbol, t, resp)} :
              /\ op' = call
              /\ wire' = Transmitted(call.requests)
              /\ now' = call.clock
    /\ NotApi

\* the page sizes asked for: the default and another
PageSizes == {10, 50}

\* get_order_history
get_order_history(symbol, page_size, t, resp) ==
    [name |-> "get_order_history", args |-> [symbol |-> symbol, page_size |-> page_size],
     requests |-> <<send_request("GET", "/capi/v2/order/history",
                                 "?symbol=" \o symbol \o "&pageSize=" \o NatStr(page_size),
                                 NoBody, t)>>,
     response |-> resp, end |-> JsonOrNone(resp), clock |-> t]

GetOrderHistory ==
    /\ pc = "ready"
    /\ \E symbol \in AllSymbols, page_size \in PageSizes, t \in now..MaxClock, resp \in Responses :
          \E call \in {get_order_history(symbol, page_size, t, resp)} :
              /\ op' = call
              /\ wire' = Transmitted(call.requests)
              /\ now' = call.clock
    /\ NotApi

\* get_trade_fills
get_trade_fills(symbol, page_size, t, resp) ==
    [name |-> "get_trade_fills", args |-> [symbol |-> symbol, page_size |-> page_size],
     requests |-> <<send_request("GET", "/capi/v2/order/fills",
                                 "?symbol=" \o symbol \o "&pageSize=" \o NatStr(page_size),
                                 NoBody, t)>>,
     response |-> resp, end |-> JsonOrNone(resp), clock |-> t]

GetTradeFills ==
    /\ pc = "ready"
    /\ \E symbol \in AllSymbols, page_size \in PageSizes, t \in now..MaxClock, resp \in Responses :
          \E call \in {get_trade_fills(symbol, page_size, t, resp)} :
              /\ op' = call
              /\ wire' = Transmitted(call.requests)
              /\ now' = call.clock
    /\ NotApi

\* get_leverage
get_leverage(symbol, t, resp) ==
    [name |-> "get_leverage", args |-> [symbol |-> symbol],
     requests |-> <<send_request("GET", "/capi/v2/account/leverage", "?symbol=" \o symbol,
                                 NoBody, t)>>,
     response |-> resp, end |-> JsonOrNone(resp), clock |-> t]

GetLeverage ==
    /\ pc = "ready"
    /\ \E symbol \in AllSymbols, t \in now..MaxClock, resp \in Responses :
          \E call \in {get_leverage(symbol, t, resp)} :
              /\ op' = call
              /\ wire' = Transmitted(call.requests)
              /\ now' = call.clock
    /\ NotApi

\* set_leverage
set_leverage(symbol, margin_mode, long_leverage, short_leverage, t, resp) ==
    [name |-> "set_leverage",
     args |-> [symbol |-> symbol, margin_mode |-> margin_mode,
               long_leverage |-> long_leverage, short_leverage |-> short_leverage],
     requests |-> <<send_request("POST", "/capi/v2/account/leverage", "",
                                 Dict(<< <<"symbol", JStr(symbol)>>,
                                         <<"marginMode", JInt(margin_mode)>>,
                                         <<"longLeverage", JStr(long_leverage)>>,
                                         <<"shortLeverage", JStr(short_leverage)>> >>),
                                 t)>>,
     response |-> resp, end |-> TrueOrFalse(resp), clock |-> t]

SetLeverage ==
    /\ pc = "ready"
    /\ \E symbol \in AllSymbols, margin_mode \in {1, 2}, leverage \in {"1", "20"} :
       \E t \in now..MaxClock, resp \in Responses :
          \E call \in {set_leverage(symbol, margin_mode, leverage, leverage, t, resp)} :
              /\ op' = call
              /\ wire' = Transmitted(call.requests)
              /\ now' = call.clock
    /\ NotApi

\* what the transport does with the position query of a symbol: it raises,
\* answers 200 with an open position of that symbol, with a position of size
\* zero or with a body that is not JSON, or answers 400 with an error message
PositionResponses(symbol) ==
    {[kind |-> "exception", status_code |-> 0, json |-> [is |-> "none"]],
     [kind |-> "response", status_code |-> 200,
      json |-> [is |-> "dict", symbol |-> symbol, size |-> "1", unrealizePnl |-> "0"]],
     [kind |-> "response", status_code |-> 200,
      json |-> [is |-> "dict", size |-> "0", unrealizePnl |-> "0"]],
     [kind |-> "response", status_code |-> 200, json |-> [is |-> "invalid"]],
     [kind |-> "response", status_code |-> 400,
      json |-> [is |-> "dict", message |-> "denied"]]}

\* the tuple (success, data, error_message) get_single_position returns
Tuple3(success, data, error_msg) == [success |-> success, data |-> data, error_msg |-> error_msg]

\* get_single_position: the exception of send_request is caught, the one of
\* response.json() on a 200 response is not; the message of the exception is
\* written "query failed: ConnectionError"
get_single_position(symbol, t, resp) ==
    [name |-> "get_single_position", args |-> [symbol |-> symbol],
     requests |-> <<send_request("GET", "/capi/v2/account/position/singlePosition",
                                 "?symbol=" \o symbol, NoBody, t)>>,
     response |-> resp,
     end |-> IF resp.kind = "exception"
             THEN Returned(Tuple3(FALSE, None, "query failed: ConnectionError"))
             ELSE IF resp.status_code = 200
             THEN IF resp.json.is = "invalid" THEN Raised("JSONDecodeError")
                  ELSE Returned(Tuple3(TRUE, resp.json, None))
             ELSE IF resp.json.is = "invalid"
             THEN Returned(Tuple3(FALSE, None, "HTTP " \o NatStr(resp.status_code) \o ": "))
             ELSE Returned(Tuple3(FALSE, None, resp.json.message)),
     clock |-> t]

\* a caller invokes get_single_position
GetSinglePosition ==
    /\ pc = "ready"
    /\ \E symbol \in AllSymbols, t \in now..MaxClock :
       \E resp \in PositionResponses(symbol) :
          \E call \in {get_single_position(symbol, t, resp)} :
              /\ op' = call
              /\ wire' = Transmitted(call.requests)
              /\ now' = call.clock
    /\ NotApi

\* the arguments send_request is called with directly
Methods == {"GET", "POST", "get"}
Paths == {"/capi/v2/account/assets", "/capi/v2/account/leverage"}
Queries == {"", "?symbol=cmt_btcusdt", "symbol=cmt_btcusdt"}
Bodies ==
    {NoBody, Dict(<<>>),
     Dict(<< <<"symbol", JStr("cmt_btcusdt")>>, <<"marginMode", JInt(1)>>,
             <<"longLeverage", JStr("20")>>, <<"shortLeverage", JStr("20")>> >>)}

\* a caller invokes send_request
SendRequest ==
    /\ pc = "ready"
    /\ \E method \in Methods, request_path \in Paths, query_string \in Queries :
       \E body \in Bodies, t \in now..MaxClock, resp \in Responses :
          \E request \in {send_request(method, request_path, query_string, body, t)} :
              /\ op' = [name |-> "send_request",
                        args |-> [method |-> method, request_path |-> request_path,
                                  query_string |-> query_string, body |-> body],
                        requests |-> <<request>>,
                        response |-> resp,
                        end |-> IF ~Transmits(method) THEN Raised("UnboundLocalError")
                                ELSE IF resp.kind = "exception" THEN Raised("ConnectionError")
                                ELSE Returned(resp),
                        clock |-> t]
              /\ wire' = Transmitted(<<request>>)
              /\ now' = t
    /\ NotApi

\* the credentials the environment may hold
ApiKeys == {None, "", "ak-0123456789"}
SecretKeys == {None, "", "sk-secret"}
Passphrases == {None, "", "phrase"}

\* the module loaded with the validation of the credentials left out
LoadModuleUnchecked ==
    /\ pc = "boot"
    /\ pc' = "ready"
    /\ UNCHANGED <<exit_code, api_key, secret_key, access_passphrase, now, op, wire, calc>>

\* the module is loaded: without all three credentials it exits with status 1
LoadModule ==
    /\ pc = "boot"
    /\ IF api_key \in {None, ""} \/ secret_key \in {None, ""}
          \/ access_passphrase \in {None, ""}
       THEN pc' = "exited" /\ exit_code' = 1
       ELSE pc' = "ready" /\ exit_code' = exit_code
    /\ UNCHANGED <<api_key, secret_key, access_passphrase, now, op, wire, calc>>

Init ==
    /\ pc = "boot"
    /\ exit_code = None
    /\ api_key \in ApiKeys
    /\ secret_key \in SecretKeys
    /\ access_passphrase \in Passphrases
    /\ now = 0
    /\ op = NoOp
    /\ wire = <<>>
    /\ calc = NoCalc

Next ==
    \/ LoadModule
    \/ SendRequest
    \/ PlaceOrder
    \/ CmdOrder
    \/ CancelOrder
    \/ GetTicker
    \/ GetAccountAssets
    \/ GetCurrentOrders
    \/ GetOrderHistory
    \/ GetTradeFills
    \/ GetSinglePosition
    \/ GetLeverage
    \/ SetLeverage

Spec == Init /\ [][Next]_vars


(***************************************************************************)
(* Properties of the precision functions, checked under SpecPrecision.     *)
(***************************************************************************)
Prec(symbol) == SYMBOL_PRECISION[symbol]

Positive(step) == NumCmp(step, PyInt(0)) > 0

\* C2: for a symbol of the precision table and a raw size at or below its
\* min_size (zero and negative sizes included), adjust_size_to_precision
\* returns exactly min_size.
C2_MinimumEnforced ==
    (calc.fn = "adjust_size" /\ Known(calc.symbol)
        /\ NumCmp(calc.value, Prec(calc.symbol).min_size) <= 0)
    => calc.out = Prec(calc.symbol).min_size

\* cmt_dogeusdt with a raw size of 50.0 has been adjusted, to the int 100
C2_Witness ==
    /\ calc.fn = "adjust_size"
    /\ calc.symbol = "cmt_dogeusdt"
    /\ calc.value = PyFloat(50 * Unit)
    /\ calc.out = PyInt(100)

\* C4: round_to_step is idempotent: for a positive step, rounding the rounded
\* value again returns the rounded value.
C4_RoundIdempotent ==
    (calc.fn = "round_to_step_twice" /\ Positive(calc.step)) => calc.out = calc.prev

\* 0.3 has been rounded to the step 0.1 twice, the first time to
\* 0.30000000000000004
C4_Witness ==
    /\ calc.fn = "round_to_step_twice"
    /\ calc.step = PyFloat(100000)
    /\ calc.value = PyFloat(300000)
    /\ calc.prev # calc.value
    /\ Micro(calc.prev) = 300000

\* to the millionth, r is a multiple of step at most half a step from x
NearestMultiple(x, step, r) ==
    /\ Micro(r) % Micro(step) = 0
    /\ 2 * Abs(Micro(r) - Micro(x)) <= Micro(step)

\* to the millionth, x is halfway between two multiples of step
DecimalHalfway(x, step, r) == 2 * Abs(Micro(r) - Micro(x)) = Micro(step)

\* the number x the program holds is exactly halfway between two multiples of
\* the number step it holds: 2 * x is an odd multiple of step
ExactHalfway(x, step) ==
    LET low == IF Expo(x) + 1 < Expo(step) THEN Expo(x) + 1 ELSE Expo(step)
        qr == BigDivMod(BigShl(Mant(x), Expo(x) + 1 - low), BigShl(Mant(step), Expo(step) - low))
    IN  ~IsZero(x) /\ qr[2] = <<>> /\ BigOdd(qr[1])

\* r is an even multiple of step
EvenMultiple(step, r) == (Micro(r) \div Micro(step)) % 2 = 0

\* the rule as the claim words it: the nearest multiple, and the even multiple
\* for a value halfway between two multiples
NearestHalfEven(x, step, r) ==
    /\ NearestMultiple(x, step, r)
    /\ DecimalHalfway(x, step, r) => EvenMultiple(step, r)

\* the rule as the code applies it: the nearest multiple to the millionth, and
\* the even multiple when the quotient computed in binary is exactly halfway
NearestBinaryHalfEven(x, step, r) ==
    /\ NearestMultiple(x, step, r)
    /\ ExactHalfway(x, step) => EvenMultiple(step, r)

RECURSIVE OnlyDigits(_)
OnlyDigits(s) ==
    \/ s = ""
    \/ /\ \E d \in 0..9 : SubSeq(s, 1, 1) = Digit(d)
       /\ OnlyDigits(SubSeq(s, 2, Len(s)))

\* s is fixed-decimal text with exactly n fraction digits (no point when n = 0)
FixedWithDigits(s, n) ==
    LET t == IF StartsWith(s, "-") THEN SubSeq(s, 2, Len(s)) ELSE s
        dot == IndexIn(".", t, 1)
    IN  IF n = 0 THEN Len(t) > 0 /\ OnlyDigits(t)
        ELSE /\ dot > 1
             /\ OnlyDigits(SubSeq(t, 1, dot - 1))
             /\ OnlyDigits(SubSeq(t, dot + 1, Len(t)))
             /\ Len(t) - dot = n

\* the number of fraction digits a step of v millionths is written with
FractionDigits(v) ==
    IF v >= Unit THEN 0
    ELSE CHOOSE d \in 0..6 :
            /\ v % (10^(6 - d)) = 0
            /\ \A e \in 0..(d - 1) : v % (10^(6 - e)) # 0

\* C8: for a symbol of the precision table and every price,
\* format_price_string yields fixed-decimal text with exactly as many
\* fraction digits as the symbol's price_step has.
C8_PriceDigits ==
    (calc.fn \in {"format_price", "format_adjusted"} /\ Known(calc.symbol))
    => FixedWithDigits(calc.out, FractionDigits(Micro(Prec(calc.symbol).price_step)))

\* an adjusted cmt_dogeusdt price has been formatted, with five fraction digits
C8_Witness ==
    /\ calc.fn = "format_adjusted"
    /\ calc.symbol = "cmt_dogeusdt"
    /\ ~IsZero(calc.value)
    /\ FixedWithDigits(calc.out, 5)

(***************************************************************************)
(* Properties of the order and request path, checked under Spec.           *)
(***************************************************************************)
\* the calls of place_order the last command made
PlacedOrders ==
    IF op.name = "place_order" THEN <<op>>
    ELSE IF op.name = "cmd_order" THEN op.called
    ELSE <<>>

\* the text of a field of the body a place_order call handed to send_request
BodyField(order, key) == GetPair(order.requests[1].body.pairs, key).s

\* the decimal text s in millionths, for text of at most six fraction digits
MicroOfText(s) ==
    LET d == DecimalOfText(s)
        n == BigToInt(BigMulPow10(BigFromDigits(d.ds), d.e10 + 6))
    IN  IF d.neg THEN -n ELSE n

\* float(s)
ReadBack(s) == Tabled(ParsedTexts, s, ParseFloat(s))

\* C1: a limit order with no price (price None in place_order, --price absent
\* in cmd_order) fails: place_order returns None, and send_request is never
\* called, so nothing is built or sent, for every symbol, side and size.
C1_NoPriceNoRequest ==
    /\ \A i \in DOMAIN PlacedOrders :
          (PlacedOrders[i].args.order_type = "limit" /\ PlacedOrders[i].args.price = NoPrice)
          => /\ PlacedOrders[i].end = Returned(None)
             /\ PlacedOrders[i].requests = <<>>
             /\ wire = <<>>
    /\ (op.name = "cmd_order" /\ op.args.type = "limit" /\ op.args.price \in {None, ""})
          => /\ op.called = <<>>
             /\ op.requests = <<>>
             /\ wire = <<>>

\* place_order has been called for a limit order without a price, and returned
C1_Witness ==
    /\ op.name = "place_order"
    /\ op.args.order_type = "limit"
    /\ op.args.price = NoPrice
    /\ op.args.symbol = "cmt_btcusdt"
    /\ op.end.outcome = "returned"

\* the number x is a whole multiple of the number step, exactly
ExactMultiple(x, step) ==
    LET low == IF Expo(x) < Expo(step) THEN Expo(x) ELSE Expo(step)
    IN  BigDivMod(BigShl(Mant(x), Expo(x) - low), BigShl(Mant(step), Expo(step) - low))[2] = <<>>

\* the decimal written by the text s is a whole multiple of the decimal
\* written by the text step
DecimalMultiple(s, step) ==
    LET a == DecimalOfText(s)
        b == DecimalOfText(step)
        low == IF a.e10 < b.e10 THEN a.e10 ELSE b.e10
    IN  BigDivMod(BigMulPow10(BigFromDigits(a.ds), a.e10 - low),
                  BigMulPow10(BigFromDigits(b.ds), b.e10 - low))[2] = <<>>

\* C3: for a symbol of the precision table and every raw size, the size
\* adjust_size_to_precision produces, and the size text place_order puts in
\* the order body, is an integer multiple of the symbol's size_step, also
\* when the min_size floor is applied.
C3_SizeStepAligned ==
    \A i \in DOMAIN PlacedOrders :
       Known(PlacedOrders[i].args.symbol)
       => /\ ExactMultiple(PlacedOrders[i].adjusted_size,
                           Prec(PlacedOrders[i].args.symbol).size_step)
          /\ PlacedOrders[i].requests # <<>>
                => DecimalMultiple(BodyField(PlacedOrders[i], "size"),
                                   StepTexts[Prec(PlacedOrders[i].args.symbol).size_step])

\* C6: for a symbol outside the precision table size and price pass through
\* unmodified (no rounding, no minimum floor), and it is no error:
\* place_order still builds and sends the order, with that size and price.
C6_UnknownPassThrough ==
    \A i \in DOMAIN PlacedOrders :
       (~Known(PlacedOrders[i].args.symbol)
          /\ ~(PlacedOrders[i].args.order_type = "limit" /\ PlacedOrders[i].args.price = NoPrice))
       => /\ PlacedOrders[i].adjusted_size = PlacedOrders[i].args.size
          /\ Len(PlacedOrders[i].requests) = 1
          /\ wire = PlacedOrders[i].requests
          /\ ReadBack(BodyField(PlacedOrders[i], "size")) = PlacedOrders[i].args.size
          /\ PlacedOrders[i].args.order_type = "limit"
                => /\ PlacedOrders[i].adjusted_price = PlacedOrders[i].args.price
                   /\ ReadBack(BodyField(PlacedOrders[i], "price"))
                         = PlacedOrders[i].args.price

\* a limit order for cmt_unknown of size 3.456, below no minimum and on no
\* step, has been sent with the size text 3.456
C6_Witness ==
    /\ op.name = "place_order"
    /\ op.args.symbol = UnknownSymbol
    /\ op.args.order_type = "limit"
    /\ op.args.size = PyFloat(3456000)
    /\ op.args.price = PyFloat(3456000)
    /\ Len(wire) = 1
    /\ BodyField(op, "size") = "3.456"

OrderFields == {"symbol", "client_oid", "size", "type", "order_type", "match_price", "price"}

\* C7: every order body place_order submits has exactly the fields symbol,
\* client_oid, size, type, order_type, match_price and price; type is "1" for
\* buy and "2" for sell, order_type is "0"; a market order has match_price "1"
\* and price exactly "0" whatever price was passed, a limit order has
\* match_price "0" and the normalised price: for a symbol of the table the
\* multiple of price_step nearest to the price, for any other symbol the
\* price itself.
C7_OrderBody ==
    \A i \in DOMAIN PlacedOrders :
       PlacedOrders[i].requests # <<>>
       => /\ Len(PlacedOrders[i].requests[1].body.pairs) = 7
          /\ {Keys(PlacedOrders[i].requests[1].body)[k] : k \in 1..7} = OrderFields
          /\ BodyField(PlacedOrders[i], "symbol") = PlacedOrders[i].args.symbol
          /\ PlacedOrders[i].args.side = "buy" => BodyField(PlacedOrders[i], "type") = "1"
          /\ PlacedOrders[i].args.side = "sell" => BodyField(PlacedOrders[i], "type") = "2"
          /\ BodyField(PlacedOrders[i], "order_type") = "0"
          /\ PlacedOrders[i].args.order_type = "market"
                => /\ BodyField(PlacedOrders[i], "match_price") = "1"
                   /\ BodyField(PlacedOrders[i], "price") = "0"
          /\ PlacedOrders[i].args.order_type = "limit"
                => /\ BodyField(PlacedOrders[i], "match_price") = "0"
                   /\ IF Known(PlacedOrders[i].args.symbol)
                      THEN LET step == Micro(Prec(PlacedOrders[i].args.symbol).price_step)
                               sent == MicroOfText(BodyField(PlacedOrders[i], "price"))
                           IN  /\ sent % step = 0
                               /\ 2 * Abs(sent - Micro(PlacedOrders[i].args.price)) <= step
                      ELSE ReadBack(BodyField(PlacedOrders[i], "price"))
                              = PlacedOrders[i].args.price

\* a market sell order that was passed a price has been sent
C7_Witness ==
    /\ op.name = "place_order"
    /\ op.args.order_type = "market"
    /\ op.args.side = "sell"
    /\ op.args.price # NoPrice
    /\ ~IsZero(op.args.price)
    /\ Len(wire) = 1
    /\ BodyField(op, "price") = "0"

\* what request r signed before its body: timestamp, METHOD, path and query
SignedHead(r) ==
    r.headers["ACCESS-TIMESTAMP"] \o Upper(r.method) \o r.request_path \o r.query_string

\* the body component of the message request r signed
SignedBody(r) ==
    SubSeq(r.headers["ACCESS-SIGN"].message, Len(SignedHead(r)) + 1,
           Len(r.headers["ACCESS-SIGN"].message))

\* C9: send_request serialises the body exactly once per request, and the
\* text it signs is the text it transmits as the POST body; when no body is
\* supplied the body component of the signed message is the empty text.
C9_BodySerializedOnce ==
    \A i \in DOMAIN op.requests :
       /\ op.requests[i].dumps = IF Truthy(op.requests[i].body) THEN 1 ELSE 0
       /\ StartsWith(op.requests[i].headers["ACCESS-SIGN"].message, SignedHead(op.requests[i]))
       /\ op.requests[i].method = "POST" => op.requests[i].data = SignedBody(op.requests[i])
       /\ op.requests[i].body = NoBody => SignedBody(op.requests[i]) = ""

\* a POST with a body has been transmitted
C9_Witness ==
    /\ op.name = "send_request"
    /\ Len(wire) = 1
    /\ wire[1].method = "POST"
    /\ Truthy(wire[1].body)
    /\ wire[1].data # ""

\* C10: every request send_request transmits carries the headers ACCESS-KEY,
\* ACCESS-SIGN, ACCESS-TIMESTAMP, ACCESS-PASSPHRASE, Content-Type and locale;
\* its ACCESS-SIGN is the signature, under the secret key, of the
\* concatenation without separators of the ACCESS-TIMESTAMP of that request,
\* the upper-cased method, the path, the query string as supplied and the body
\* text; the clock is read once per request.
C10_SignedEnvelope ==
    \A i \in DOMAIN wire :
       /\ DOMAIN wire[i].headers = HeaderNames
       /\ wire[i].headers["ACCESS-KEY"] = api_key
       /\ wire[i].headers["ACCESS-PASSPHRASE"] = access_passphrase
       /\ wire[i].headers["Content-Type"] = "application/json"
       /\ wire[i].headers["ACCESS-SIGN"]
             = B64HmacSha256(secret_key,
                             wire[i].headers["ACCESS-TIMESTAMP"] \o Upper(wire[i].method)
                                \o wire[i].request_path \o wire[i].query_string
                                \o wire[i].body_str)
       /\ wire[i].clock_reads = 1

\* a GET with a query string has been transmitted after the clock advanced
C10_Witness ==
    /\ op.name = "get_ticker"
    /\ Len(wire) = 1
    /\ wire[1].query_string # ""
    /\ wire[1].headers["ACCESS-TIMESTAMP"] = "1"

(***************************************************************************)
(* The credentials.                                                        *)
(***************************************************************************)
\* a credential the environment does not hold, or holds empty
Missing(credential) == credential \in {None, ""}

\* C11: when the API key, the secret key or the passphrase is missing or
\* empty, the process exits with a status other than zero before any command
\* runs: no operation has run and no request has been signed or sent.
C11_NoCredentialsNoRun ==
    (Missing(api_key) \/ Missing(secret_key) \/ Missing(access_passphrase))
        => /\ pc \in {"boot", "exited"}
           /\ pc = "exited" => exit_code # 0
           /\ op = NoOp
           /\ wire = <<>>

\* the process has exited with only the passphrase empty
C11_Witness ==
    /\ pc = "exited"
    /\ exit_code = 1
    /\ ~Missing(api_key)
    /\ ~Missing(secret_key)
    /\ access_passphrase = ""

(***************************************************************************)
(* The position queries.                                                   *)
(***************************************************************************)
\* list(SYMBOL_PRECISION.keys()): the symbols in the order of the table
all_symbols ==
    <<"cmt_btcusdt", "cmt_ethusdt", "cmt_solusdt", "cmt_dogeusdt",
      "cmt_xrpusdt", "cmt_adausdt", "cmt_bnbusdt", "cmt_ltcusdt">>

\* float(size) > 0 or float(unrealized_pnl) != 0, for the texts "0" and "1"
has_position(pos) == pos.size # "0" \/ pos.unrealizePnl # "0"

\* {"symbol": symbol, **pos}: the keys of pos, and "symbol" when pos has none
PositionEntry(symbol, pos) == pos @@ [symbol |-> symbol]

\* the loop body of get_all_positions with a failed query taken for a position
loop_body_failure_kept(run, symbol, call) ==
    [run EXCEPT !.i = @ + 1,
                !.called = Append(@, call),
                !.positions = Append(@, [symbol |-> symbol])]

\* the loop body of get_all_positions for one symbol, after its call of
\* get_single_position has returned
loop_body(run, symbol, call) ==
    [run EXCEPT !.i = @ + 1,
                !.called = Append(@, call),
                !.errors = IF ~call.end.value.success
                           THEN Append(@, symbol \o ": " \o call.end.value.error_msg)
                           ELSE @,
                !.positions = IF call.end.value.success /\ has_position(call.end.value.data)
                              THEN Append(@, PositionEntry(symbol, call.end.value.data))
                              ELSE @]

\* the exception of get_single_position leaves get_all_positions
loop_raised(run, call) ==
    [run EXCEPT !.called = Append(@, call),
                !.end = call.end]

\* get_all_positions is called: positions = [], errors = []
AllPositionsStart ==
    /\ pc = "ready"
    /\ pc' = "get_all_positions"
    /\ op' = [name |-> "get_all_positions", i |-> 1, called |-> <<>>,
              positions |-> <<>>, errors |-> <<>>, end |-> None]
    /\ UNCHANGED <<exit_code, api_key, secret_key, access_passphrase, now, wire, calc>>

\* one turn of `for symbol in all_symbols`; the clock stands still during the
\* loop
AllPositionsQuery ==
    /\ pc = "get_all_positions"
    /\ op.i <= Len(all_symbols)
    /\ \E resp \in PositionResponses(all_symbols[op.i]) :
          \E call \in {get_single_position(all_symbols[op.i], now, resp)} :
              /\ wire' = wire \o Transmitted(call.requests)
              /\ IF call.end.outcome = "raised"
                 THEN /\ op' = loop_raised(op, call)
                      /\ pc' = "done"
                 ELSE /\ op' = loop_body(op, all_symbols[op.i], call)
                      /\ pc' = pc
    /\ UNCHANGED <<exit_code, api_key, secret_key, access_passphrase, now, calc>>

\* return positions
AllPositionsReturn ==
    /\ pc = "get_all_positions"
    /\ op.i > Len(all_symbols)
    /\ op' = [op EXCEPT !.end = Returned(op.positions)]
    /\ pc' = "done"
    /\ UNCHANGED <<exit_code, api_key, secret_key, access_passphrase, now, wire, calc>>

\* the process loaded with its credentials and about to run the positions
\* command
InitPositions ==
    /\ pc = "ready"
    /\ exit_code = None
    /\ api_key = "ak-0123456789"
    /\ secret_key = "sk-secret"
    /\ access_passphrase = "phrase"
    /\ now = 0
    /\ op = NoOp
    /\ wire = <<>>
    /\ calc = NoCalc

NextPositions ==
    \/ AllPositionsStart
    \/ AllPositionsQuery
    \/ AllPositionsReturn

SpecPositions == InitPositions /\ [][NextPositions]_vars

\* the symbols queried, in the order of the requests
Queried(requests) == [k \in 1..Len(requests) |-> requests[k].query_string]

\* "?symbol=" followed by each symbol of the table, in its order
TableQueries == [k \in 1..Len(all_symbols) |-> "?symbol=" \o all_symbols[k]]

\* C12: get_all_positions runs to completion and queries every symbol of the
\* precision table exactly once, in the order of the table, whatever each
\* query meets (success, transport exception, non-200 response, unusable
\* response body).
C12_EverySymbolQueried ==
    (op.name = "get_all_positions" /\ pc = "done")
        => /\ op.end.outcome = "returned"
           /\ Queried(wire) = TableQueries

\* the place of a symbol in the table
TableIndex(symbol) == CHOOSE k \in 1..Len(all_symbols) : all_symbols[k] = symbol

\* the symbols of the entries of positions, the symbols named by errors
InPositions(positions, symbol) == \E k \in 1..Len(positions) : positions[k].symbol = symbol
InErrors(errors, symbol) == \E k \in 1..Len(errors) : StartsWith(errors[k], symbol \o ": ")

ApiOperations ==
    {"get_account_assets", "get_ticker", "get_current_orders", "get_order_history",
     "get_trade_fills", "get_single_position", "get_leverage", "set_leverage",
     "place_order", "cancel_order"}

\* the value by which an operation reports that it failed: False for the
\* operations that return a bool, (False, None, message) for a position
\* query, None for the others
FailureValue(name, end) ==
    /\ end.outcome = "returned"
    /\ IF name \in {"set_leverage", "cancel_order"} THEN end.value = "False"
       ELSE IF name = "get_single_position"
       THEN /\ ~end.value.success
            /\ end.value.data = None
            /\ end.value.error_msg # None
       ELSE end.value = None

\* C14: an API operation makes at most one HTTP call per invocation whatever
\* the status of the response, and it reports a response other than 200 by
\* its failure value, never as a success.
C14_NoRetry ==
    op.name \in ApiOperations
        => /\ Len(op.requests) <= 1
           /\ wire = op.requests
           /\ (op.response.kind = "response" /\ op.response.status_code # 200)
                 => FailureValue(op.name, op.end)

\* set_leverage answered with 500 and a body that is not JSON
C14_Witness ==
    /\ op.name = "set_leverage"
    /\ op.response.kind = "response"
    /\ op.response.status_code = 500
    /\ Len(wire) = 1
    /\ op.end = Returned("False")

(***************************************************************************)
(* The signer called twice, with other calls in between (SpecSigner).      *)
(***************************************************************************)
\* the arguments generate_signature is called with
SignerSecrets == {"k", "sk-secret"}
SignerTimestamps == {"0", "1000"}
SignerMethods == {"GET", "get"}
SignerQueries == {"", "?a=1"}

\* one call of generate_signature: its arguments and what it returned
SignatureCall(secret, timestamp, method, request_path, query_string, body) ==
    [args |-> <<secret, timestamp, method, request_path, query_string, body>>,
     signature |-> generate_signature(secret, timestamp, method, request_path,
                                      query_string, body)]

InitSigner ==
    /\ pc = "ready"
    /\ exit_code = None
    /\ api_key = "ak-0123456789"
    /\ secret_key = "sk-secret"
    /\ access_passphrase = "phrase"
    /\ now = 0
    /\ op = [name |-> "generate_signature", calls |-> <<>>]
    /\ wire = <<>>
    /\ calc = NoCalc

\* a caller invokes generate_signature, a first and a second time
CallGenerateSignature ==
    /\ Len(op.calls) < 2
    /\ \E secret \in SignerSecrets, timestamp \in SignerTimestamps, method \in SignerMethods :
       \E query_string \in SignerQueries :
          op' = [op EXCEPT !.calls = Append(@, SignatureCall(secret, timestamp, method, "/p",
                                                             query_string, ""))]
    /\ UNCHANGED <<pc, exit_code, api_key, secret_key, access_passphrase, now, wire, calc>>

\* another call happens in between: send_request reads the clock, signs and
\* transmits; at most MaxClock + 1 of them
CallBetween ==
    /\ Len(wire) <= MaxClock
    /\ \E t \in now..MaxClock :
          /\ now' = t
          /\ wire' = Append(wire, send_request("GET", "/capi/v2/account/assets", "", NoBody, t))
    /\ UNCHANGED <<pc, exit_code, api_key, secret_key, access_passphrase, op, calc>>

NextSigner ==
    \/ CallGenerateSignature
    \/ CallBetween

SpecSigner == InitSigner /\ [][NextSigner]_vars

\* two calls with the same arguments returned the same signature
SameInSameOut ==
    \A a, b \in 1..Len(op.calls) :
        op.calls[a].args = op.calls[b].args => op.calls[a].signature = op.calls[b].signature

SignedQuery(r) ==
    SubSeq(r.headers["ACCESS-SIGN"].message,
           Len(r.headers["ACCESS-TIMESTAMP"]) + Len(r.method) + Len(r.request_path) + 1,
           Len(r.headers["ACCESS-SIGN"].message) - Len(r.body_str))

\* the text of the URL of request r after BASE_URL and the path
SentQuery(r) == SubSeq(r.url, Len(BASE_URL) + Len(r.request_path) + 1, Len(r.url))

SignatureLength == 44

\* s[:n]
Prefix(s, n) == SubSeq(s, 1, IF Len(s) < n THEN Len(s) ELSE n)

\* signature[:n] + "***", the signature being kept as the HMAC it stands for
SignaturePrefix(signature, n) ==
    [of |-> signature, shown |-> IF SignatureLength < n THEN SignatureLength ELSE n,
     then |-> "***"]

\* masked_headers: the copy of the headers that is printed
masked_headers(headers) ==
    [headers EXCEPT !["ACCESS-KEY"] = Prefix(@, 10) \o "***",
                    !["ACCESS-SIGN"] = SignaturePrefix(@, 20),
                    !["ACCESS-PASSPHRASE"] = "***"]

\* what send_request prints about a request in verbose mode: the endpoint,
\* the URL, the method, the masked headers and the body (no proxy is set)
printed_request(r) ==
    [endpoint |-> r.request_path, url |-> r.url, method |-> r.method,
     headers |-> masked_headers(r.headers), body |-> r.body_str]

\* the credentials of the processes that print: API keys of 13, 10 and 8
\* characters
VerboseApiKeys == {"ak-0123456789", "0123456789", "shortkey"}
VerbosePassphrases == {"phrase", "pw"}

InitVerbose ==
    /\ pc = "ready"
    /\ exit_code = None
    /\ api_key \in VerboseApiKeys
    /\ secret_key = "sk-secret"
    /\ access_passphrase \in VerbosePassphrases
    /\ now = 0
    /\ op = NoOp
    /\ wire = <<>>
    /\ calc = NoCalc

\* a caller invokes send_request with verbose=True
SendRequestVerbose ==
    /\ pc = "ready"
    /\ \E method \in Methods, request_path \in Paths, query_string \in Queries :
       \E body \in Bodies, t \in now..MaxClock, resp \in Responses :
          \E request \in {send_request(method, request_path, query_string, body, t)} :
              /\ op' = [name |-> "send_request",
                        args |-> [method |-> method, request_path |-> request_path,
                                  query_string |-> query_string, body |-> body,
                                  verbose |-> TRUE],
                        requests |-> <<request>>,
                        printed |-> printed_request(request),
                        response |-> resp,
                        end |-> IF ~Transmits(method) THEN Raised("UnboundLocalError")
                                ELSE IF resp.kind = "exception" THEN Raised("ConnectionError")
                                ELSE Returned(resp),
                        clock |-> t]
              /\ wire' = Transmitted(<<request>>)
              /\ now' = t
    /\ NotApi

NextVerbose == SendRequestVerbose

SpecVerbose == InitVerbose /\ [][NextVerbose]_vars

\* text holds s somewhere
Contains(text, s) ==
    \E i \in 1..(Len(text) - Len(s) + 1) : SubSeq(text, i, i + Len(s) - 1) = s

\* the texts printed about a request, the signature apart
PrintedTexts(p) ==
    {p.endpoint, p.url, p.method, p.body}
        \cup {p.headers[k] : k \in DOMAIN p.headers \ {"ACCESS-SIGN"}}

\* C17: what send_request prints about the request in verbose mode holds
\* neither the complete API key, nor the complete signature, nor the
\* passphrase, nor the secret key, whatever the length of the credentials;
\* the headers transmitted are not masked.
C17_CredentialsMasked ==
    (op.name = "send_request" /\ op.args.verbose)
        => /\ \A text \in PrintedTexts(op.printed) :
                /\ ~Contains(text, api_key)
                /\ ~Contains(text, access_passphrase)
                /\ ~Contains(text, secret_key)
           /\ op.printed.headers["ACCESS-SIGN"].shown < SignatureLength
           /\ op.requests[1].headers["ACCESS-KEY"] = api_key
           /\ op.requests[1].headers["ACCESS-PASSPHRASE"] = access_passphrase
           /\ op.requests[1].headers["ACCESS-SIGN"] = op.printed.headers["ACCESS-SIGN"].of

============================================================================
